---- MODULE Spec2Model ----
(***************************************************************************)
(* Model of the CSV ingestion pipeline of src/src/data_loader.py:          *)
(* load_data, load_single_file, check_invalid_dates, the derived queries   *)
(* and fill_missing_months.                                                *)
(*                                                                         *)
(* A CSV field is a sequence of one-character strings, so that the date    *)
(* and number parsers work on the text as the library parsers do.  The     *)
(* empty sequence is an empty field, which pandas reads as NaN.  Amounts   *)
(* are fixed-point integers in hundredths.                                 *)
(***************************************************************************)
EXTENDS Integers, Sequences, FiniteSets, TLC

VARIABLES
    dir,        \* the source directory: file name -> [present, rows]
    cacheAll,   \* st.cache_data memo of load_data()
    cacheOne,   \* st.cache_data memo of load_single_file(filename), per argument
    budget,     \* top-level calls the run may still make
    ret,        \* the last call: operation, argument, enumeration order, directory read, value
    query,      \* the last derived query applied to ret.val
    series,     \* fill_missing_months: the input frame and arguments
    filled      \* fill_missing_months: the frame returned

vars == <<dir, cacheAll, cacheOne, budget, ret, query, series, filled>>

(***************************************************************************)
(* Text helpers                                                            *)
(***************************************************************************)
Digits == {"0", "1", "2", "3", "4", "5", "6", "7", "8", "9"}

DigitVal(c) ==
    CASE c = "0" -> 0 [] c = "1" -> 1 [] c = "2" -> 2 [] c = "3" -> 3
      [] c = "4" -> 4 [] c = "5" -> 5 [] c = "6" -> 6 [] c = "7" -> 7
      [] c = "8" -> 8 [] c = "9" -> 9

AllDigits(s) == \A i \in 1..Len(s) : s[i] \in Digits

RECURSIVE NatVal(_)
NatVal(s) ==
    IF s = <<>> THEN 0
    ELSE 10 * NatVal(SubSeq(s, 1, Len(s) - 1)) + DigitVal(s[Len(s)])

\* positions of character c in s
Positions(s, c) == {i \in 1..Len(s) : s[i] = c}

Min(S) == CHOOSE x \in S : \A y \in S : x <= y

(***************************************************************************)
(* pd.to_datetime(column, format="%d/%m/%Y", errors="coerce")              *)
(***************************************************************************)
NaT == [ok |-> FALSE, y |-> 0, m |-> 0, d |-> 0]

IsLeap(y) == (y % 4 = 0 /\ y % 100 # 0) \/ y % 400 = 0

DaysInMonth(y, m) ==
    IF m = 2 THEN (IF IsLeap(y) THEN 29 ELSE 28)
    ELSE IF m \in {4, 6, 9, 11} THEN 30 ELSE 31

\* %d is one or two digits naming 1..31, %m one or two digits naming 1..12,
\* %Y exactly four digits; the whole text must match, and the day must exist
\* in that month of that year.  A missing value (NaN) or any failure is NaT.
to_datetime(s) ==
    LET sl == Positions(s, "/") IN
    IF Cardinality(sl) # 2 THEN NaT
    ELSE
        LET p1 == Min(sl)
            p2 == CHOOSE x \in sl : x # p1
            ds == SubSeq(s, 1, p1 - 1)
            ms == SubSeq(s, p1 + 1, p2 - 1)
            ys == SubSeq(s, p2 + 1, Len(s))
        IN  IF /\ Len(ds) \in {1, 2} /\ AllDigits(ds)
               /\ Len(ms) \in {1, 2} /\ AllDigits(ms)
               /\ Len(ys) = 4 /\ AllDigits(ys)
               /\ NatVal(ms) \in 1..12
               /\ NatVal(ys) >= 1
               /\ NatVal(ds) >= 1
               /\ NatVal(ds) <= DaysInMonth(NatVal(ys), NatVal(ms))
            THEN [ok |-> TRUE, y |-> NatVal(ys), m |-> NatVal(ms), d |-> NatVal(ds)]
            ELSE NaT

(***************************************************************************)
(* Numbers.  A cell of a frame is a number, a string or NaN.               *)
(***************************************************************************)
Num(n) == [k |-> "num", v |-> n, s |-> <<>>]
Str(t) == [k |-> "str", v |-> 0, s |-> t]
NaN == [k |-> "nan", v |-> 0, s |-> <<>>]

\* hundredths named by the fraction digits fs
FracVal(fs) ==
    IF Len(fs) = 0 THEN 0
    ELSE IF Len(fs) = 1 THEN 10 * DigitVal(fs[1])
    ELSE 10 * DigitVal(fs[1]) + DigitVal(fs[2])

\* a decimal number written with decimal mark dec: [sign] digits [dec digits]
ParseNumber(s, dec) ==
    LET neg  == Len(s) > 0 /\ s[1] = "-"
        body == IF Len(s) > 0 /\ s[1] \in {"-", "+"} THEN SubSeq(s, 2, Len(s)) ELSE s
        dp   == Positions(body, dec)
        ip   == IF dp = {} THEN body ELSE SubSeq(body, 1, Min(dp) - 1)
        fp   == IF dp = {} THEN <<>> ELSE SubSeq(body, Min(dp) + 1, Len(body))
        good == /\ Cardinality(dp) <= 1
                /\ Len(ip) >= 1 /\ AllDigits(ip)
                /\ AllDigits(fp) /\ (dp # {} => Len(fp) >= 1)
        mag  == 100 * NatVal(ip) + FracVal(fp)
    IN  IF good THEN [ok |-> TRUE, v |-> IF neg THEN 0 - mag ELSE mag]
        ELSE [ok |-> FALSE, v |-> 0]

\* pd.read_csv(sep=";", decimal=","): a column is numeric when every non-empty
\* field of it is a number with decimal comma; otherwise the whole column keeps
\* its text.  An empty field is NaN either way.
ColumnIsNumeric(rows, col) ==
    \A i \in 1..Len(rows) : rows[i][col] = <<>> \/ ParseNumber(rows[i][col], ",").ok

ReadCell(rows, i, col) ==
    IF rows[i][col] = <<>> THEN NaN
    ELSE IF ColumnIsNumeric(rows, col) THEN Num(ParseNumber(rows[i][col], ",").v)
    ELSE Str(rows[i][col])

\* pd.to_numeric(column, errors="coerce").fillna(0): a number stays, a string
\* is read with the decimal point, and what cannot be read becomes 0
to_numeric_fillna(c) ==
    IF c.k = "num" THEN c.v
    ELSE IF c.k = "str" /\ ParseNumber(c.s, ".").ok THEN ParseNumber(c.s, ".").v
    ELSE 0

(***************************************************************************)
(* Frames.  A frame is [cols, rows]; pd.DataFrame() has no column at all.  *)
(* In Tiers, Categorie and Notes the empty string is the missing value.    *)
(***************************************************************************)
Max(S) == CHOOSE x \in S : \A y \in S : x >= y

\* the rows of a frame at the positions S, in frame order (boolean-mask selection)
RECURSIVE SelectRows(_, _)
SelectRows(rows, S) ==
    IF S = {} THEN <<>>
    ELSE LET m == Max(S) IN Append(SelectRows(rows, S \ {m}), rows[m])

RawCols == {"Date", "Depense", "Revenu", "Tiers", "Categorie", "Notes"}

LedgerCols == RawCols \cup {"source_file", "Year", "Month", "YearMonth"}

EmptyFrame == [cols |-> {}, rows |-> <<>>]

\* pd.read_csv of one file, then df["source_file"] = name.  index is the
\* frame's own row label, 0-based.
read_csv(name, rows) ==
    [i \in 1..Len(rows) |->
        [index       |-> i - 1,
         Date        |-> rows[i].Date,
         Depense     |-> ReadCell(rows, i, "Depense"),
         Revenu      |-> ReadCell(rows, i, "Revenu"),
         Tiers       |-> rows[i].Tiers,
         Categorie   |-> rows[i].Categorie,
         Notes       |-> rows[i].Notes,
         source_file |-> name]]

\* pd.concat(all_data, ignore_index=True): file-then-row order, fresh labels
RECURSIVE ConcatFrames(_)
ConcatFrames(frames) ==
    IF frames = <<>> THEN <<>>
    ELSE ConcatFrames(SubSeq(frames, 1, Len(frames) - 1)) \o frames[Len(frames)]

\* a concatenation that takes the frames from the last to the first
concat_LastFirst(frames) ==
    LET all == ConcatFrames([k \in 1..Len(frames) |-> frames[Len(frames) + 1 - k]])
    IN  [i \in 1..Len(all) |-> [all[i] EXCEPT !.index = i - 1]]

concat(frames) ==
    LET all == ConcatFrames(frames)
    IN  [i \in 1..Len(all) |-> [all[i] EXCEPT !.index = i - 1]]

\* combined["Date"] = pd.to_datetime(combined["Date"], ...)
ParseDates(rows) ==
    [i \in 1..Len(rows) |-> [rows[i] EXCEPT !.Date = to_datetime(rows[i].Date)]]

\* the mask is computed and the rows are not filtered by it
DropInvalidDates_KeepAll(rows) == rows

\* combined = combined[~invalid_dates_mask]
DropInvalidDates(rows) ==
    SelectRows(rows, {i \in 1..Len(rows) : rows[i].Date.ok})

\* dropna() in the place of fillna(0): a row whose amount is not a number goes
CoerceAmounts_DropBad(rows) ==
    LET good(c) == c.k = "num" \/ (c.k = "str" /\ ParseNumber(c.s, ".").ok)
        kept == SelectRows(rows, {i \in 1..Len(rows) :
                                    good(rows[i].Depense) /\ good(rows[i].Revenu)})
    IN  [i \in 1..Len(kept) |->
            [kept[i] EXCEPT !.Depense = to_numeric_fillna(kept[i].Depense),
                            !.Revenu  = to_numeric_fillna(kept[i].Revenu)]]

\* combined["Depense"] = pd.to_numeric(...).fillna(0), and the same for Revenu
CoerceAmounts(rows) ==
    [i \in 1..Len(rows) |->
        [rows[i] EXCEPT !.Depense = to_numeric_fillna(rows[i].Depense),
                        !.Revenu  = to_numeric_fillna(rows[i].Revenu)]]

\* the subset of drop_duplicates; missing values compare equal
DedupKey(r) == <<r.Date, r.Depense, r.Tiers, r.Notes>>

\* keep="last"
drop_duplicates_KeepLast(rows) ==
    SelectRows(rows, {i \in 1..Len(rows) :
                        \A j \in (i + 1)..Len(rows) : DedupKey(rows[j]) # DedupKey(rows[i])})

\* combined.drop_duplicates(subset=[Date, Depense, Tiers, Notes], keep="first")
drop_duplicates(rows) ==
    SelectRows(rows, {i \in 1..Len(rows) :
                        \A j \in 1..(i - 1) : DedupKey(rows[j]) # DedupKey(rows[i])})

\* Year, Month and YearMonth from the parsed date
AddDerived(rows) ==
    [i \in 1..Len(rows) |->
        [index       |-> rows[i].index,
         Date        |-> rows[i].Date,
         Depense     |-> rows[i].Depense,
         Revenu      |-> rows[i].Revenu,
         Tiers       |-> rows[i].Tiers,
         Categorie   |-> rows[i].Categorie,
         Notes       |-> rows[i].Notes,
         source_file |-> rows[i].source_file,
         Year        |-> rows[i].Date.y,
         Month       |-> rows[i].Date.m,
         YearMonth   |-> <<rows[i].Date.y, rows[i].Date.m>>]]

\* the stages shared by load_data and load_single_file after reading
Pipeline(rows) ==
    AddDerived(drop_duplicates(CoerceAmounts(DropInvalidDates(ParseDates(rows)))))

\* the body of load_data, for the directory d whose glob yields the files in
\* the order given
load_data(d, order) ==
    IF order = <<>> THEN EmptyFrame
    ELSE [cols |-> LedgerCols,
          rows |-> Pipeline(concat([k \in 1..Len(order) |->
                                        read_csv(order[k], d[order[k]].rows)]))]

\* a reading of one file that keeps the rows repeating an earlier one
load_single_file_NoDedup(d, filename) ==
    IF ~(filename \in DOMAIN d /\ d[filename].present) THEN EmptyFrame
    ELSE [cols |-> LedgerCols,
          rows |-> AddDerived(CoerceAmounts(DropInvalidDates(ParseDates(
                       read_csv(filename, d[filename].rows)))))]

\* the body of load_single_file
load_single_file(d, filename) ==
    IF ~(filename \in DOMAIN d /\ d[filename].present) THEN EmptyFrame
    ELSE [cols |-> LedgerCols, rows |-> Pipeline(read_csv(filename, d[filename].rows))]

(***************************************************************************)
(* Derived queries.  Tiers and Categorie are character sequences, compared *)
(* as Python compares str: by code point, a prefix before its extensions.  *)
(***************************************************************************)
CodeOrder == <<"-", "0", "1", "2", "3", "4", "5", "6", "7", "8", "9",
               "A", "B", "F", "T", "a", "b", "c", "d", "e", "f", "i", "l",
               "n", "o", "p", "r", "s", "t">>

Ord(c) == CHOOSE i \in 1..Len(CodeOrder) : CodeOrder[i] = c

RECURSIVE StrLess(_, _)
StrLess(a, b) ==
    IF b = <<>> THEN FALSE
    ELSE IF a = <<>> THEN TRUE
    ELSE IF a[1] # b[1] THEN Ord(a[1]) < Ord(b[1])
    ELSE StrLess(Tail(a), Tail(b))

RECURSIVE SortedStrs(_)
SortedStrs(S) ==
    IF S = {} THEN <<>>
    ELSE LET m == CHOOSE x \in S : \A y \in S \ {x} : StrLess(x, y)
         IN  <<m>> \o SortedStrs(S \ {m})

RECURSIVE SortedInts(_)
SortedInts(S) ==
    IF S = {} THEN <<>>
    ELSE LET m == Min(S) IN <<m>> \o SortedInts(S \ {m})

Returned(v) == [raised |-> FALSE, val |-> v]
KeyError == [raised |-> TRUE, val |-> <<>>]

\* a listing that does not drop the missing value
get_persons_KeepMissing(df) ==
    IF "Tiers" \notin df.cols THEN KeyError
    ELSE Returned(SortedStrs({df.rows[i].Tiers : i \in 1..Len(df.rows)}))

\* sorted(df["Tiers"].dropna().unique().tolist())
get_persons(df) ==
    IF "Tiers" \notin df.cols THEN KeyError
    ELSE Returned(SortedStrs({df.rows[i].Tiers : i \in 1..Len(df.rows)} \ {<<>>}))

\* sorted(df["Year"].unique())
get_years(df) ==
    IF "Year" \notin df.cols THEN KeyError
    ELSE Returned(SortedInts({df.rows[i].Year : i \in 1..Len(df.rows)}))

\* sorted(df["Categorie"].dropna().unique().tolist())
get_categories(df) ==
    IF "Categorie" \notin df.cols THEN KeyError
    ELSE Returned(SortedStrs({df.rows[i].Categorie : i \in 1..Len(df.rows)} \ {<<>>}))

(***************************************************************************)
(* check_invalid_dates                                                     *)
(***************************************************************************)
NanText == <<"n", "a", "n">>

\* df["Date"].astype(str): the text itself, and "nan" for a missing value
astype_str(s) == IF s = <<>> THEN NanText ELSE s

InvalidCols == RawCols \cup {"original_date", "source_file", "row_number", "Date_parsed"}

\* one file's frame with original_date, source_file, row_number and
\* Date_parsed added
WithDiagnostics(name, rows) ==
    LET df == read_csv(name, rows)
    IN  [i \in 1..Len(df) |->
            [index         |-> df[i].index,
             Date          |-> df[i].Date,
             Depense       |-> df[i].Depense,
             Revenu        |-> df[i].Revenu,
             Tiers         |-> df[i].Tiers,
             Categorie     |-> df[i].Categorie,
             Notes         |-> df[i].Notes,
             original_date |-> astype_str(df[i].Date),
             source_file   |-> name,
             row_number    |-> i + 1,
             Date_parsed   |-> to_datetime(df[i].Date)]]

\* a mask that takes a missing date for no date to check
InvalidRowsOf_SkipMissing(name, rows) ==
    LET ext == WithDiagnostics(name, rows)
    IN  SelectRows(ext, {i \in 1..Len(ext) : ~ext[i].Date_parsed.ok /\ ext[i].Date # <<>>})

\* invalid_rows = df[invalid_mask]: the rows whose Date_parsed is NaT
InvalidRowsOf(name, rows) ==
    LET ext == WithDiagnostics(name, rows)
    IN  SelectRows(ext, {i \in 1..Len(ext) : ~ext[i].Date_parsed.ok})

\* one pass of the loop body for a file: read_csv raising on content it
\* cannot read is caught by "except Exception" and the loop goes on; a frame
\* without a Date column is skipped with a warning; any other file gives its
\* invalid rows
ScanFile(name, file) ==
    IF file.defect = "unreadable" THEN <<>>
    ELSE IF file.defect = "no_date" THEN <<>>
    ELSE InvalidRowsOf(name, file.rows)

\* a scan that an unreadable file or one without Date column ends: the files
\* enumerated after it are not looked at
check_invalid_dates_StopAtDefect(d, order) ==
    LET bad  == {k \in 1..Len(order) : d[order[k]].defect # "none"}
        upto == IF bad = {} THEN Len(order)
                ELSE (CHOOSE k \in bad : \A j \in bad : k <= j) - 1
        per == [k \in 1..upto |-> ScanFile(order[k], d[order[k]])]
        all_invalid == SelectRows(per, {k \in 1..Len(per) : per[k] # <<>>})
    IN  IF all_invalid = <<>> THEN EmptyFrame
        ELSE [cols |-> InvalidCols, rows |-> concat(all_invalid)]

check_invalid_dates(d, order) ==
    LET per == [k \in 1..Len(order) |-> ScanFile(order[k], d[order[k]])]
        all_invalid == SelectRows(per, {k \in 1..Len(per) : per[k] # <<>>})
    IN  IF all_invalid = <<>> THEN EmptyFrame
        ELSE [cols |-> InvalidCols, rows |-> concat(all_invalid)]

(***************************************************************************)
(* fill_missing_months(df, year, value_column, group_columns)              *)
(* A row of a series is [YearMonth, group, value]: YearMonth the text      *)
(* "YYYY-MM", group the value of the one grouping column (<<>> when the    *)
(* series is not grouped), value a number cell or NaN.                     *)
(***************************************************************************)
DigitChar(n) == CodeOrder[n + 2]

RECURSIVE DecStr(_)
DecStr(n) == IF n < 10 THEN <<DigitChar(n)>> ELSE DecStr(n \div 10) \o <<DigitChar(n % 10)>>

\* f"{year}-{m:02d}"
MonthKey(year, m) == DecStr(year) \o <<"-", DigitChar(m \div 10), DigitChar(m % 10)>>

\* all_months = [f"{year}-{m:02d}" for m in range(1, 13)]
all_months(year) == [m \in 1..12 |-> MonthKey(year, m)]

\* the order of sort_values(["YearMonth"] + group_columns)
RowLess(a, b) ==
    \/ StrLess(a.YearMonth, b.YearMonth)
    \/ a.YearMonth = b.YearMonth /\ StrLess(a.group, b.group)

\* sort_values; rows that compare equal keep their order
RECURSIVE InsertSorted(_, _)
InsertSorted(sorted, r) ==
    IF sorted = <<>> THEN <<r>>
    ELSE IF RowLess(r, sorted[Len(sorted)])
         THEN Append(InsertSorted(SubSeq(sorted, 1, Len(sorted) - 1), r), sorted[Len(sorted)])
         ELSE Append(sorted, r)

RECURSIVE sort_values(_)
sort_values(rows) ==
    IF rows = <<>> THEN <<>>
    ELSE InsertSorted(sort_values(SubSeq(rows, 1, Len(rows) - 1)), rows[Len(rows)])

\* df[group_columns].drop_duplicates(): the groups in order of first appearance
unique_groups(df) ==
    LET firsts == {i \in 1..Len(df) : \A j \in 1..(i - 1) : df[j].group # df[i].group}
        kept   == SelectRows(df, firsts)
    IN  [k \in 1..Len(kept) |-> kept[k].group]

\* the frame of every month of the year for every group, all values 0
full_df(year, groups) ==
    [k \in 1..(12 * Len(groups)) |->
        [YearMonth |-> all_months(year)[((k - 1) \div Len(groups)) + 1],
         group     |-> groups[((k - 1) % Len(groups)) + 1],
         value     |-> Num(0)]]

\* the value is read from the _default column of the merge
MergeRow_KeepDefault(l, df, grouped) ==
    LET hits == {i \in 1..Len(df) :
                    df[i].YearMonth = l.YearMonth /\ (grouped => df[i].group = l.group)}
    IN  IF hits = {} THEN <<[l EXCEPT !.value = NaN]>>
        ELSE [k \in 1..Cardinality(hits) |-> l]

\* what full_df.merge(df, on=keys, how="left") makes of one row of full_df:
\* one row per matching row of df, in df's order, carrying df's value, or
\* one row with no value when nothing matches.  The keys are YearMonth and,
\* for a grouped series, the group.
MergeRow(l, df, grouped) ==
    LET hits == {i \in 1..Len(df) :
                    df[i].YearMonth = l.YearMonth /\ (grouped => df[i].group = l.group)}
        hit  == SelectRows(df, hits)
    IN  IF hits = {} THEN <<[l EXCEPT !.value = NaN]>>
        ELSE [k \in 1..Len(hit) |-> [l EXCEPT !.value = hit[k].value]]

RECURSIVE merge_left(_, _, _)
merge_left(full, df, grouped) ==
    IF full = <<>> THEN <<>>
    ELSE merge_left(SubSeq(full, 1, Len(full) - 1), df, grouped)
            \o MergeRow(full[Len(full)], df, grouped)

\* the months without a row are left without a value
fillna_Skip(rows) == rows

\* result[value] = result[value].fillna(result[value_default]), then .fillna(0)
fillna(rows) ==
    [i \in 1..Len(rows) |->
        IF rows[i].value.k = "nan" THEN [rows[i] EXCEPT !.value = Num(0)] ELSE rows[i]]

fill_missing_months(df, year, grouped) ==
    IF grouped
    THEN LET groups == IF df # <<>> THEN unique_groups(df) ELSE <<>>
         IN  IF groups = <<>> THEN <<>>
             ELSE sort_values(fillna(merge_left(full_df(year, groups), df, TRUE)))
    ELSE IF df = <<>> THEN full_df(year, <<(<<>>)>>)
         ELSE sort_values(fillna(merge_left(full_df(year, <<(<<>>)>>), df, FALSE)))


(***************************************************************************)
(* The source files the model reads                                        *)
(***************************************************************************)
MaxRows == 2    \* data rows in the whole directory
MaxCalls == 3   \* top-level calls of a run that changes the directory

FileNames == {"feb.csv", "jan.csv"}

T_15_01_2024 == <<"1", "5", "/", "0", "1", "/", "2", "0", "2", "4">>
T_01_02_2024 == <<"0", "1", "/", "0", "2", "/", "2", "0", "2", "4">>
T_31_02_2024 == <<"3", "1", "/", "0", "2", "/", "2", "0", "2", "4">>
T_iso_date   == <<"2", "0", "2", "4", "-", "0", "1", "-", "1", "5">>
T_50_00      == <<"5", "0", ",", "0", "0">>
T_10_00      == <<"1", "0", ",", "0", "0">>
T_minus_5_00 == <<"-", "5", ",", "0", "0">>
T_0          == <<"0">>
T_abc        == <<"a", "b", "c">>
Alice        == <<"A", "l", "i", "c", "e">>
Bob          == <<"B", "o", "b">>
Food         == <<"F", "o", "o", "d">>
Transport    == <<"T", "r", "a", "n", "s", "p", "o", "r", "t">>

Row(date, dep, rev, tiers, cat, notes) ==
    [Date |-> date, Depense |-> dep, Revenu |-> rev,
     Tiers |-> tiers, Categorie |-> cat, Notes |-> notes]

\* the data rows a file may hold: the rows of the documented example, a
\* duplicate that differs in category only, each kind of date defect and
\* each kind of amount defect
RowPool ==
    { Row(T_15_01_2024, T_50_00,      T_0,  Alice, Food,      "lunch"),
      Row(T_15_01_2024, T_50_00,      T_0,  Alice, Transport, "lunch"),
      Row(T_31_02_2024, T_10_00,      T_0,  Bob,   Food,      "bad-date"),
      Row(<<>>,         T_50_00,      T_0,  Alice, Food,      "lunch"),
      Row(T_iso_date,   T_10_00,      T_0,  Bob,   Food,      ""),
      Row(T_15_01_2024, T_abc,        T_0,  Alice, Food,      "lunch"),
      Row(T_15_01_2024, T_0,          T_abc, Alice, Food,     "lunch"),
      Row(T_01_02_2024, T_minus_5_00, T_0,  Bob,   Transport, ""),
      Row(T_01_02_2024, <<>>,         <<>>, <<>>,  Food,      "") }

Absent == [present |-> FALSE, rows |-> <<>>, defect |-> "none"]

\* a ledger file pandas reads: defect says what stands in the way of the
\* scan, "none" for a readable file with a Date column
File(rows) == [present |-> TRUE, rows |-> rows, defect |-> "none"]

\* the directory whose jan.csv holds the first k rows of all and whose
\* feb.csv holds the rest; a file without rows may also be absent
Directory(all, k, janPresent, febPresent) ==
    [f \in FileNames |->
        IF f = "jan.csv"
        THEN (IF janPresent THEN File(SubSeq(all, 1, k)) ELSE Absent)
        ELSE (IF febPresent THEN File(SubSeq(all, k + 1, Len(all))) ELSE Absent)]

\* dir is a directory of at most n data rows drawn from pool
IsDirectory(n, pool) ==
    \E m \in 0..n :
        \E all \in [1..m -> pool] :
            \E k \in 0..m, janPresent, febPresent \in BOOLEAN :
                /\ (k > 0 => janPresent)
                /\ (k < m => febPresent)
                /\ dir = Directory(all, k, janPresent, febPresent)

Present(d) == {f \in FileNames : d[f].present}

\* data_dir.glob("*.csv") yields the files in an order the file system chooses
GlobOrders(d) ==
    {o \in UNION {[1..n -> Present(d)] : n \in {Cardinality(Present(d))}} :
        \A i, j \in 1..Len(o) : i # j => o[i] # o[j]}

NoCall == [op |-> "none", arg |-> "", cached |-> FALSE, order |-> <<>>,
           at |-> [f \in FileNames |-> Absent], val |-> EmptyFrame]

NoQuery == [fn |-> "none", raised |-> FALSE, val |-> <<>>]

NoMemo == [hit |-> FALSE, val |-> EmptyFrame]

NoSeries == [df |-> <<>>, year |-> 0, grouped |-> FALSE]

NotFilled == [done |-> FALSE, rows |-> <<>>]

Init ==
    /\ IsDirectory(MaxRows, RowPool)
    /\ cacheAll = NoMemo
    /\ cacheOne = [f \in FileNames |-> NoMemo]
    /\ budget = 1
    /\ ret = NoCall
    /\ query = NoQuery
    /\ series = NoSeries
    /\ filled = NotFilled

(***************************************************************************)
(* The calls a page makes                                                  *)
(***************************************************************************)
\* @st.cache_data load_data(): the memo has no key but the (empty) argument
\* list, so a hit returns what the first call computed
LoadData ==
    /\ budget > 0
    /\ \E order \in GlobOrders(dir) :
          LET v == IF cacheAll.hit THEN cacheAll.val ELSE load_data(dir, order)
          IN  /\ ret' = [op |-> "load_data", arg |-> "", cached |-> cacheAll.hit,
                         order |-> IF cacheAll.hit THEN <<>> ELSE order,
                         at |-> dir, val |-> v]
              /\ cacheAll' = [hit |-> TRUE, val |-> v]
    /\ budget' = budget - 1
    /\ query' = NoQuery
    /\ UNCHANGED <<dir, cacheOne, series, filled>>

\* @st.cache_data load_single_file(filename): one memo entry per file name
LoadSingleFile ==
    /\ budget > 0
    /\ \E f \in FileNames :
          LET v == IF cacheOne[f].hit THEN cacheOne[f].val ELSE load_single_file(dir, f)
          IN  /\ ret' = [op |-> "load_single_file", arg |-> f, cached |-> cacheOne[f].hit,
                         order |-> <<>>, at |-> dir, val |-> v]
              /\ cacheOne' = [cacheOne EXCEPT ![f] = [hit |-> TRUE, val |-> v]]
    /\ budget' = budget - 1
    /\ query' = NoQuery
    /\ UNCHANGED <<dir, cacheAll, series, filled>>

CheckInvalidDates ==
    /\ budget > 0
    /\ \E order \in GlobOrders(dir) :
          ret' = [op |-> "check_invalid_dates", arg |-> "", cached |-> FALSE,
                  order |-> order, at |-> dir, val |-> check_invalid_dates(dir, order)]
    /\ budget' = budget - 1
    /\ query' = NoQuery
    /\ UNCHANGED <<dir, cacheAll, cacheOne, series, filled>>

IsLedger == ret.op \in {"load_data", "load_single_file"}

GetPersons ==
    /\ IsLedger
    /\ query' = [fn |-> "get_persons"] @@ get_persons(ret.val)
    /\ UNCHANGED <<dir, cacheAll, cacheOne, budget, ret, series, filled>>

GetYears ==
    /\ IsLedger
    /\ query' = [fn |-> "get_years"] @@ get_years(ret.val)
    /\ UNCHANGED <<dir, cacheAll, cacheOne, budget, ret, series, filled>>

GetCategories ==
    /\ IsLedger
    /\ query' = [fn |-> "get_categories"] @@ get_categories(ret.val)
    /\ UNCHANGED <<dir, cacheAll, cacheOne, budget, ret, series, filled>>

Next ==
    \/ LoadData
    \/ LoadSingleFile
    \/ CheckInvalidDates
    \/ GetPersons
    \/ GetYears
    \/ GetCategories

Spec == Init /\ [][Next]_vars

(***************************************************************************)
(* The scan of a directory that may hold defective files: a file read_csv  *)
(* raises on ("unreadable": wrong encoding, broken quoting, no content) or *)
(* a readable file whose header has no Date column ("no_date"; its rows    *)
(* hold the other columns, the Date field stands for nothing that is       *)
(* read). Only check_invalid_dates is called on such a directory.          *)
(***************************************************************************)
Defects == {"none", "unreadable", "no_date"}

InitDefective ==
    /\ \E m \in 0..MaxRows :
        \E all \in [1..m -> RowPool] :
            \E k \in 0..m, janPresent, febPresent \in BOOLEAN :
                \E janDefect, febDefect \in Defects :
                    /\ (k > 0 => janPresent)
                    /\ (k < m => febPresent)
                    /\ (~janPresent => janDefect = "none")
                    /\ (~febPresent => febDefect = "none")
                    /\ dir = [f \in FileNames |->
                                [Directory(all, k, janPresent, febPresent)[f]
                                    EXCEPT !.defect = IF f = "jan.csv" THEN janDefect
                                                      ELSE febDefect]]
    /\ cacheAll = NoMemo
    /\ cacheOne = [f \in FileNames |-> NoMemo]
    /\ budget = 1
    /\ ret = NoCall
    /\ query = NoQuery
    /\ series = NoSeries
    /\ filled = NotFilled

NextDefective == CheckInvalidDates

SpecDefective == InitDefective /\ [][NextDefective]_vars

(***************************************************************************)
(* A run during which the source directory changes                         *)
(***************************************************************************)
\* what a changed file may hold
ChangePool ==
    { Row(T_15_01_2024, T_50_00, T_0, Alice, Food, "lunch"),
      Row(T_31_02_2024, T_10_00, T_0, Bob,   Food, "bad-date") }

Contents == {<<>>} \cup {<<r>> : r \in ChangePool}

InitChanging ==
    /\ IsDirectory(1, ChangePool)
    /\ cacheAll = NoMemo
    /\ cacheOne = [f \in FileNames |-> NoMemo]
    /\ budget = MaxCalls
    /\ ret = NoCall
    /\ query = NoQuery
    /\ series = NoSeries
    /\ filled = NotFilled

Change(f, file) ==
    /\ budget > 0
    /\ dir' = [dir EXCEPT ![f] = file]
    /\ budget' = budget - 1
    /\ UNCHANGED <<cacheAll, cacheOne, ret, query, series, filled>>

AddFile == \E f \in FileNames, rows \in Contents : ~dir[f].present /\ Change(f, File(rows))

RemoveFile == \E f \in FileNames : dir[f].present /\ Change(f, Absent)

EditFile ==
    \E f \in FileNames, rows \in Contents :
        dir[f].present /\ rows # dir[f].rows /\ Change(f, File(rows))

NextChanging ==
    \/ Next
    \/ AddFile
    \/ RemoveFile
    \/ EditFile

SpecChanging == InitChanging /\ [][NextChanging]_vars


(***************************************************************************)
(* The series handed to fill_missing_months: a series that is complete     *)
(* and sorted on some of the months, then changed in up to MaxEdits ways   *)
(***************************************************************************)
MaxEdits == 1

FillYears == {2024}

BaseMonthSets == {{}, {3, 12}, 1..12}

GroupLists == {<<Alice>>, <<Alice, Bob>>}

EditValues == {Num(0), Num(7)}

\* the value the base series gives month m of the k-th group
BaseValue(m, k) == Num(10 * m + k)

RECURSIVE BaseRows(_, _, _)
BaseRows(year, months, groups) ==
    IF months = {} THEN <<>>
    ELSE LET m == Max(months)
         IN  BaseRows(year, months \ {m}, groups)
               \o [k \in 1..Len(groups) |->
                      [YearMonth |-> MonthKey(year, m), group |-> groups[k],
                       value |-> BaseValue(m, k)]]

InitFill ==
    /\ dir = [f \in FileNames |-> Absent]
    /\ cacheAll = NoMemo
    /\ cacheOne = [f \in FileNames |-> NoMemo]
    /\ budget = MaxEdits
    /\ ret = NoCall
    /\ query = NoQuery
    /\ filled = NotFilled
    /\ \E year \in FillYears, months \in BaseMonthSets, grouped \in BOOLEAN :
          \E groups \in (IF grouped THEN GroupLists ELSE {<<(<<>>)>>}) :
              series = [df |-> BaseRows(year, months, groups),
                        year |-> year, grouped |-> grouped]

Edit(df) ==
    /\ ~filled.done
    /\ budget > 0
    /\ series' = [series EXCEPT !.df = df]
    /\ budget' = budget - 1
    /\ UNCHANGED <<dir, cacheAll, cacheOne, ret, query, filled>>

Rows == 1..Len(series.df)

AllRows == 1..Len(series.df)

\* a month of the series is left out
RemoveRow == \E i \in Rows : Edit(SelectRows(series.df, AllRows \ {i}))

\* a month-key occurs a second time, with the same value or another
RepeatRow ==
    \E i \in Rows :
        \E v \in EditValues \cup {series.df[i].value} :
            Edit(Append(series.df, [series.df[i] EXCEPT !.value = v]))

\* the rows are not in month order
MoveRow ==
    \E i \in Rows :
        Edit(Append(SelectRows(series.df, AllRows \ {i}), series.df[i]))

SetValue ==
    \E i \in Rows, v \in EditValues :
        Edit([series.df EXCEPT ![i].value = v])

\* a row carries the month-key of the year before
OtherYear ==
    \E i \in Rows, m \in {1, 12} :
        Edit([series.df EXCEPT ![i].YearMonth = MonthKey(series.year - 1, m)])

AddRow ==
    \E m \in {1, 2, 12}, v \in EditValues \cup {Num(5)},
       g \in (IF series.grouped THEN {Alice, Bob} ELSE {<<>>}) :
        Edit(Append(series.df, [YearMonth |-> MonthKey(series.year, m),
                                group |-> g, value |-> v]))

Fill ==
    /\ ~filled.done
    /\ series.year # 0
    /\ filled' = [done |-> TRUE,
                  rows |-> fill_missing_months(series.df, series.year, series.grouped)]
    /\ UNCHANGED <<dir, cacheAll, cacheOne, budget, ret, query, series>>

NextFill ==
    \/ RemoveRow
    \/ RepeatRow
    \/ MoveRow
    \/ SetValue
    \/ OtherYear
    \/ AddRow
    \/ Fill

SpecFill == InitFill /\ [][NextFill]_vars

(***************************************************************************)
(* What the properties are stated in: the rows the last call read, and     *)
(* what the texts of the pool mean, written down independently of the      *)
(* parsers above.                                                          *)
(***************************************************************************)
ValidDateTexts == {T_15_01_2024, T_01_02_2024}

DefectiveAmountTexts == {T_abc, <<>>}

RECURSIVE RawConcat(_, _)
RawConcat(d, order) ==
    IF order = <<>> THEN <<>>
    ELSE LET f == order[Len(order)]
         IN  RawConcat(d, SubSeq(order, 1, Len(order) - 1))
               \o [i \in 1..Len(d[f].rows) |-> [file |-> f, row |-> d[f].rows[i]]]

\* the data rows the last call read, in the order it read them; the row of
\* the returned frame labelled index k comes from Inputs[k + 1]
Inputs ==
    IF ret.op = "load_single_file"
    THEN (IF ret.at[ret.arg].present THEN RawConcat(ret.at, <<ret.arg>>) ELSE <<>>)
    ELSE RawConcat(ret.at, ret.order)

Ledger == ret.val.rows

Computed == IsLedger /\ ~ret.cached

\* the rows with valid dates, carrying the amounts the ledger gives them,
\* before deduplication
Candidates ==
    IF ret.op = "load_single_file"
    THEN CoerceAmounts(DropInvalidDates(ParseDates(
            read_csv(ret.arg, ret.at[ret.arg].rows))))
    ELSE CoerceAmounts(DropInvalidDates(ParseDates(
            concat([k \in 1..Len(ret.order) |->
                       read_csv(ret.order[k], ret.at[ret.order[k]].rows)]))))

RowsOfFile(f) == ret.at[f].rows

InvalidPositions(f) == {i \in 1..Len(RowsOfFile(f)) : RowsOfFile(f)[i].Date \notin ValidDateTexts}

(***************************************************************************)
(* C1: every record of the ledger returned by load_data or                 *)
(* load_single_file has a parsed date, and comes from a source row whose   *)
(* Date text is a real DD/MM/YYYY date: no row with an impossible,         *)
(* malformed or missing date is in the ledger.                             *)
(***************************************************************************)
NoInvalidDateIn(ledger, inputs) ==
    \A i \in 1..Len(ledger) :
        /\ ledger[i].Date.ok
        /\ ledger[i].index + 1 \in 1..Len(inputs)
        /\ inputs[ledger[i].index + 1].row.Date \in ValidDateTexts
        /\ inputs[ledger[i].index + 1].file = ledger[i].source_file

C1_NoInvalidDateInLedger == Computed => NoInvalidDateIn(Ledger, Inputs)

\* load_data has read a row with an impossible date and returned a ledger
\* that is not empty
C1_Witness ==
    /\ ret.op = "load_data"
    /\ \E p \in 1..Len(Inputs) : Inputs[p].row.Date = T_31_02_2024
    /\ Ledger # <<>>

(***************************************************************************)
(* C2: in the ledger returned by load_data no two records share the same   *)
(* (date, expense amount, party, notes), and of the valid-date rows that   *)
(* share such a tuple the ledger holds exactly the first in file-then-row  *)
(* order, with that row's category and source file.                        *)
(***************************************************************************)
FirstOccurrenceKept(ledger, cands) ==
    /\ \A i, j \in 1..Len(ledger) :
          i # j => DedupKey(ledger[i]) # DedupKey(ledger[j])
    /\ \A i \in 1..Len(ledger) :
          \E c \in 1..Len(cands) :
              /\ cands[c].index = ledger[i].index
              /\ cands[c].Categorie = ledger[i].Categorie
              /\ cands[c].source_file = ledger[i].source_file
              /\ DedupKey(cands[c]) = DedupKey(ledger[i])
    /\ \A c \in 1..Len(cands) :
          LET first == Min({b \in 1..Len(cands) : DedupKey(cands[b]) = DedupKey(cands[c])})
          IN  /\ \E i \in 1..Len(ledger) : ledger[i].index = cands[first].index
              /\ c # first => \A i \in 1..Len(ledger) : ledger[i].index # cands[c].index

C2_FirstOccurrenceKept ==
    (ret.op = "load_data" /\ ~ret.cached) => FirstOccurrenceKept(Ledger, Candidates)

\* load_data has read two files that hold rows equal in date, amount, party
\* and notes and different in category
DuplicateAcrossFiles(cands) ==
    \E b, c \in 1..Len(cands) :
        /\ DedupKey(cands[b]) = DedupKey(cands[c])
        /\ cands[b].Categorie # cands[c].Categorie
        /\ cands[b].source_file # cands[c].source_file

C2_Witness ==
    /\ ret.op = "load_data"
    /\ DuplicateAcrossFiles(Candidates)
    /\ Ledger # <<>>

(***************************************************************************)
(* C3 as stated: for every source file with N data rows of which K have    *)
(* unparseable dates, load_data's ledger holds exactly N-K rows of that    *)
(* file, and check_invalid_dates returns exactly K rows for it, each with  *)
(* the raw date text unchanged in original_date.                           *)
(***************************************************************************)
CountOfFile(rows, f) == Cardinality({i \in 1..Len(rows) : rows[i].source_file = f})

\* the original_date values returned for file f, in order
OriginalDates(rows, f) ==
    LET own == SelectRows(rows, {i \in 1..Len(rows) : rows[i].source_file = f})
    IN  [k \in 1..Len(own) |-> own[k].original_date]

\* the Date texts of the invalid rows of file f, in order
InvalidTexts(f) ==
    LET bad == SelectRows(RowsOfFile(f), InvalidPositions(f))
    IN  [k \in 1..Len(bad) |-> bad[k].Date]

\* the valid-date rows of f that repeat the tuple of an earlier row
DroppedAsDuplicate(cands, f) ==
    Cardinality({c \in 1..Len(cands) :
                    /\ cands[c].source_file = f
                    /\ \E b \in 1..(c - 1) : DedupKey(cands[b]) = DedupKey(cands[c])})

ExactlyNMinusK(ledger) ==
    \A f \in Present(ret.at) :
        CountOfFile(ledger, f) = Len(RowsOfFile(f)) - Cardinality(InvalidPositions(f))

ReportsKVerbatim(found) ==
    \A f \in Present(ret.at) :
        /\ CountOfFile(found, f) = Cardinality(InvalidPositions(f))
        /\ OriginalDates(found, f) = InvalidTexts(f)

NMinusKLessDuplicates(ledger, cands) ==
    \A f \in Present(ret.at) :
        CountOfFile(ledger, f) =
            (Len(RowsOfFile(f)) - Cardinality(InvalidPositions(f)))
                - DroppedAsDuplicate(cands, f)

ReportsKWithNan(found) ==
    \A f \in Present(ret.at) :
        /\ CountOfFile(found, f) = Cardinality(InvalidPositions(f))
        /\ OriginalDates(found, f) =
              [k \in 1..Len(InvalidTexts(f)) |->
                  IF InvalidTexts(f)[k] = <<>> THEN NanText ELSE InvalidTexts(f)[k]]

C4_NeverStale ==
    /\ ret.op = "load_data" =>
          \E order \in GlobOrders(ret.at) : ret.val = load_data(ret.at, order)
    /\ ret.op = "load_single_file" => ret.val = load_single_file(ret.at, ret.arg)

(***************************************************************************)
(* C5: with no CSV file in the directory load_data returns an empty        *)
(* ledger, and get_persons, get_years and get_categories applied to it     *)
(* return empty collections without raising.                               *)
(***************************************************************************)
C5_EmptyDirectoryQueries ==
    (ret.op = "load_data" /\ ~ret.cached /\ Present(ret.at) = {}) =>
        /\ Ledger = <<>>
        /\ query.fn # "none" => (~query.raised /\ query.val = <<>>)

(***************************************************************************)
(* C9 as stated: a row with a valid date whose expense or income field is  *)
(* non-numeric or empty is in the ledger with that amount 0.  Read in the  *)
(* claim's favour: a row whose date, expense text, party and notes repeat  *)
(* an earlier row is left aside, and so is a row with a defective income   *)
(* that is not in the ledger.                                              *)
(***************************************************************************)
ValidAt(inputs, p) == inputs[p].row.Date \in ValidDateTexts

RepeatsEarlierText(inputs, p) ==
    \E q \in 1..(p - 1) :
        /\ inputs[q].row.Date = inputs[p].row.Date
        /\ inputs[q].row.Depense = inputs[p].row.Depense
        /\ inputs[q].row.Tiers = inputs[p].row.Tiers
        /\ inputs[q].row.Notes = inputs[p].row.Notes

DefectiveExpenseKept(ledger, inputs) ==
    \A p \in 1..Len(inputs) :
        (ValidAt(inputs, p) /\ inputs[p].row.Depense \in DefectiveAmountTexts
           /\ ~RepeatsEarlierText(inputs, p)) =>
            \E i \in 1..Len(ledger) : ledger[i].index = p - 1 /\ ledger[i].Depense = 0

DefectiveIncomeIsZero(ledger, inputs) ==
    \A p \in 1..Len(inputs) :
        (ValidAt(inputs, p) /\ inputs[p].row.Revenu \in DefectiveAmountTexts) =>
            \A i \in 1..Len(ledger) : ledger[i].index = p - 1 => ledger[i].Revenu = 0

C9_AsStated ==
    Computed => /\ DefectiveExpenseKept(Ledger, Inputs)
                /\ DefectiveIncomeIsZero(Ledger, Inputs)

(***************************************************************************)
(* C9 amended: a row with a valid date whose expense or income field is    *)
(* non-numeric or empty gets that amount 0, and it is in the ledger unless *)
(* deduplication removes it: an earlier row of the ledger has its date,    *)
(* party and notes and its expense amount, which is 0 when the expense     *)
(* field is the defective one.                                             *)
(***************************************************************************)
KeptOrDuplicate(ledger, inputs, p) ==
    \/ \E i \in 1..Len(ledger) :
          /\ ledger[i].index = p - 1
          /\ inputs[p].row.Depense \in DefectiveAmountTexts => ledger[i].Depense = 0
          /\ inputs[p].row.Revenu \in DefectiveAmountTexts => ledger[i].Revenu = 0
    \/ \E i \in 1..Len(ledger) :
          /\ ledger[i].index < p - 1
          /\ inputs[ledger[i].index + 1].row.Date = inputs[p].row.Date
          /\ ledger[i].Tiers = inputs[p].row.Tiers
          /\ ledger[i].Notes = inputs[p].row.Notes
          /\ inputs[p].row.Depense \in DefectiveAmountTexts => ledger[i].Depense = 0

DefectiveAmountIsZero(ledger, inputs) ==
    /\ DefectiveIncomeIsZero(ledger, inputs)
    /\ \A p \in 1..Len(inputs) :
          (/\ ValidAt(inputs, p)
           /\ \/ inputs[p].row.Depense \in DefectiveAmountTexts
              \/ inputs[p].row.Revenu \in DefectiveAmountTexts) =>
              /\ KeptOrDuplicate(ledger, inputs, p)
              /\ \A i \in 1..Len(ledger) :
                    (ledger[i].index = p - 1
                       /\ inputs[p].row.Depense \in DefectiveAmountTexts) =>
                        ledger[i].Depense = 0

C9_AmountCoercion == Computed => DefectiveAmountIsZero(Ledger, Inputs)

\* a ledger that holds a row whose expense text was not a number, with
\* amount 0, and a row whose income text was not a number
C9_Witness ==
    /\ IsLedger
    /\ \E i \in 1..Len(Ledger) :
          /\ Inputs[Ledger[i].index + 1].row.Depense = T_abc
          /\ Ledger[i].Depense = 0
    /\ \E i \in 1..Len(Ledger) :
          /\ Inputs[Ledger[i].index + 1].row.Revenu \in DefectiveAmountTexts
          /\ Ledger[i].Revenu = 0

(***************************************************************************)
(* C10: in every ledger returned by load_data or load_single_file the      *)
(* expense amount and the income amount of every record are numbers that   *)
(* are not negative.                                                       *)
(***************************************************************************)
C10_AmountsNonNegative ==
    Computed => \A i \in 1..Len(Ledger) : Ledger[i].Depense >= 0 /\ Ledger[i].Revenu >= 0

(***************************************************************************)
(* What the properties of fill_missing_months are stated in                *)
(***************************************************************************)
TwoDigits == <<<<"0", "1">>, <<"0", "2">>, <<"0", "3">>, <<"0", "4">>,
               <<"0", "5">>, <<"0", "6">>, <<"0", "7">>, <<"0", "8">>,
               <<"0", "9">>, <<"1", "0">>, <<"1", "1">>, <<"1", "2">>>>

\* the month-key of month m of the year the model fills, written out
ExpectedKey(m) == <<"2", "0", "2", "4", "-">> \o TwoDigits[m]

\* the groups observed in a series; the series without groups is one group
ObservedGroups(df, grouped) ==
    IF grouped THEN {df[i].group : i \in 1..Len(df)} ELSE {<<>>}

\* the values the rows of month m and group g carry, in row order
ValuesAt(rows, m, g, grouped) ==
    LET at == SelectRows(rows, {i \in 1..Len(rows) :
                                  /\ rows[i].YearMonth = ExpectedKey(m)
                                  /\ grouped => rows[i].group = g})
    IN  [k \in 1..Len(at) |-> at[k].value]

SameValues(a, b) ==
    /\ Len(a) = Len(b)
    /\ \A v \in {a[i] : i \in 1..Len(a)} \cup {b[i] : i \in 1..Len(b)} :
          Cardinality({i \in 1..Len(a) : a[i] = v})
            = Cardinality({i \in 1..Len(b) : b[i] = v})

NoRepeats(df, grouped) ==
    \A i, j \in 1..Len(df) :
        (i # j /\ df[i].YearMonth = df[j].YearMonth) => (grouped /\ df[i].group # df[j].group)

\* every month-key of the year once for every observed group, and no other row
IsComplete(df, grouped) ==
    /\ df # <<>>
    /\ Len(df) = 12 * Cardinality(ObservedGroups(df, grouped))
    /\ \A g \in ObservedGroups(df, grouped), m \in 1..12 :
          Len(ValuesAt(df, m, g, grouped)) = 1

\* complete, and ordered by month-key and then by group
IsCompleteSorted(df, grouped) ==
    \E gs \in (IF grouped THEN {<<Alice>>, <<Bob>>, <<Alice, Bob>>} ELSE {<<(<<>>)>>}) :
        /\ Len(df) = 12 * Len(gs)
        /\ \A i \in 1..Len(df) :
              /\ df[i].YearMonth = ExpectedKey(((i - 1) \div Len(gs)) + 1)
              /\ df[i].group = gs[((i - 1) % Len(gs)) + 1]

(***************************************************************************)
(* C6: the output of fill_missing_months holds, for every group observed   *)
(* in the input (or for the one series without groups), the 12 month-keys  *)
(* of the year, each exactly once, and nothing else.                       *)
(***************************************************************************)
TwelveKeysOncePerGroup(out, df, grouped) ==
    /\ Len(out) = 12 * Cardinality(ObservedGroups(df, grouped))
    /\ \A g \in ObservedGroups(df, grouped), m \in 1..12 :
          Len(ValuesAt(out, m, g, grouped)) = 1

C6_TwelveMonthsPerGroup ==
    filled.done => TwelveKeysOncePerGroup(filled.rows, series.df, series.grouped)

(***************************************************************************)
(* C7 as stated: for a series that is complete for the year,               *)
(* fill_missing_months returns its input, values and row order.            *)
(***************************************************************************)
C7_AsStated ==
    (filled.done /\ IsComplete(series.df, series.grouped)) => filled.rows = series.df

(***************************************************************************)
(* C7 amended: for a series that holds exactly the 12 month-keys of the    *)
(* year once per group, ordered by month-key and then by group,            *)
(* fill_missing_months returns its input, values and row order; and for an *)
(* input that holds no month-key twice for one group, applying it to its   *)
(* own output changes nothing.                                             *)
(***************************************************************************)
Unchanged(out, df, year, grouped) ==
    /\ IsCompleteSorted(df, grouped) => out = df
    /\ NoRepeats(df, grouped) => fill_missing_months(out, year, grouped) = out

C7_CompleteSortedUnchanged ==
    filled.done => Unchanged(filled.rows, series.df, series.year, series.grouped)

\* a complete, ordered series of two groups in which a value was changed
\* has been filled
C7_Witness ==
    /\ filled.done
    /\ series.grouped
    /\ Len(series.df) = 24
    /\ IsCompleteSorted(series.df, TRUE)
    /\ \E i \in 1..Len(series.df) : series.df[i].value = Num(7)

(***************************************************************************)
(* C8: in the output of fill_missing_months a (month-key, group) that is   *)
(* in the input carries the value it has there, and a month-key of the     *)
(* year that the input lacks for an observed group carries 0.              *)
(***************************************************************************)
ValuesKeptGapsZero(out, df, grouped) ==
    \A g \in ObservedGroups(df, grouped), m \in 1..12 :
        IF ValuesAt(df, m, g, grouped) = <<>>
        THEN ValuesAt(out, m, g, grouped) = <<Num(0)>>
        ELSE SameValues(ValuesAt(out, m, g, grouped), ValuesAt(df, m, g, grouped))

C8_ValuesKeptGapsZero ==
    filled.done => ValuesKeptGapsZero(filled.rows, series.df, series.grouped)

\* a series of two groups has been filled: one group has a month the other
\* lacks, with a value that is not 0
C8_Witness ==
    /\ filled.done
    /\ series.grouped
    /\ \E m \in 1..12 :
          /\ ValuesAt(series.df, m, Alice, TRUE) # <<>>
          /\ Num(0) \notin {ValuesAt(series.df, m, Alice, TRUE)[k] :
                               k \in 1..Len(ValuesAt(series.df, m, Alice, TRUE))}
          /\ ValuesAt(series.df, m, Bob, TRUE) = <<>>
    /\ Bob \in ObservedGroups(series.df, TRUE)

(***************************************************************************)
(* C11: every row returned by check_invalid_dates carries as row_number    *)
(* the 1-indexed position of the row among the data rows of its file, the  *)
(* header line not counted: the first data row is row 1, the k-th is row k.*)
(***************************************************************************)
RowNumbersOf(rows, f) ==
    LET own == SelectRows(rows, {i \in 1..Len(rows) : rows[i].source_file = f})
    IN  [k \in 1..Len(own) |-> own[k].row_number]

RowNumberIsPosition(rows) ==
    \A f \in FileNames : RowNumbersOf(rows, f) = SortedInts(InvalidPositions(f))

C11_RowNumberIsPosition ==
    ret.op = "check_invalid_dates" => RowNumberIsPosition(ret.val.rows)

(***************************************************************************)
(* C12: check_invalid_dates skips a file that cannot be read or parsed and *)
(* a file without a Date column: it returns no row for such a file, and    *)
(* for every other file of the directory it returns that file's invalid-   *)
(* date rows, whatever position the defective file has in the enumeration. *)
(***************************************************************************)
Healthy(d) == {f \in Present(d) : d[f].defect = "none"}

DefectiveSkipped(found) ==
    /\ \A f \in FileNames \ Healthy(ret.at) : CountOfFile(found, f) = 0
    /\ \A f \in Healthy(ret.at) :
          /\ CountOfFile(found, f) = Cardinality(InvalidPositions(f))
          /\ OriginalDates(found, f) =
                [k \in 1..Len(InvalidTexts(f)) |->
                    IF InvalidTexts(f)[k] = <<>> THEN NanText ELSE InvalidTexts(f)[k]]

C12_DefectiveFileSkipped ==
    ret.op = "check_invalid_dates" => DefectiveSkipped(ret.val.rows)

\* the scan met a defective file first, then a file with an invalid date,
\* and returned a row
C12_Witness ==
    /\ ret.op = "check_invalid_dates"
    /\ Len(ret.order) = 2
    /\ ret.at[ret.order[1]].defect # "none"
    /\ ret.at[ret.order[1]].rows # <<>>
    /\ ret.at[ret.order[2]].defect = "none"
    /\ ret.val.rows # <<>>

(***************************************************************************)
(* C13: load_single_file(f) returns the empty ledger when f does not       *)
(* exist; otherwise it returns the ledger, equal in rows, order and field  *)
(* values, that load_data returns on a directory whose only file is f.     *)
(***************************************************************************)
OnlyFile(d, f) == [g \in FileNames |-> IF g = f THEN d[g] ELSE Absent]

SingleFileAsDirectoryOfOne(ledger, d, f) ==
    IF ~d[f].present THEN ledger = EmptyFrame
    ELSE ledger = load_data(OnlyFile(d, f), <<f>>)

C13_SingleFileAsDirectoryOfOne ==
    (ret.op = "load_single_file" /\ ~ret.cached) =>
        SingleFileAsDirectoryOfOne(ret.val, ret.at, ret.arg)

\* load_single_file has read, beside another file, a file of two rows of
\* which the ledger holds one
C13_Witness ==
    /\ ret.op = "load_single_file"
    /\ Present(ret.at) = FileNames
    /\ Len(ret.at[ret.arg].rows) = 2
    /\ Len(Ledger) = 1

(***************************************************************************)
(* C14: get_persons applied to a ledger loaded from files returns each     *)
(* party once, in ascending alphabetical order, without the missing value, *)
(* and lists a party if and only if a source row with a valid date carries *)
(* it: a party whose only rows were dropped for invalid dates is not       *)
(* listed.                                                                 *)
(***************************************************************************)
Alphabetical == <<Alice, Bob>>

PlaceOf(p) == CHOOSE k \in 1..Len(Alphabetical) : Alphabetical[k] = p

\* the ledger of the last call was read from at least one file
LoadedFromFiles ==
    \/ ret.op = "load_data" /\ Present(ret.at) # {}
    \/ ret.op = "load_single_file" /\ ret.at[ret.arg].present

PersonsListed(val, inputs) ==
    /\ \A i \in 1..Len(val) : \E k \in 1..Len(Alphabetical) : val[i] = Alphabetical[k]
    /\ \A i, j \in 1..Len(val) : i < j => PlaceOf(val[i]) < PlaceOf(val[j])
    /\ \A k \in 1..Len(Alphabetical) :
          (\E i \in 1..Len(val) : val[i] = Alphabetical[k])
              <=> \E q \in 1..Len(inputs) :
                      /\ inputs[q].row.Tiers = Alphabetical[k]
                      /\ inputs[q].row.Date \in ValidDateTexts

C14_PersonsListed ==
    (query.fn = "get_persons" /\ Computed /\ LoadedFromFiles) =>
        (~query.raised /\ PersonsListed(query.val, Inputs))

\* get_persons has listed Alice alone for a ledger read from rows of which
\* one carries Bob
C14_Witness ==
    /\ query.fn = "get_persons"
    /\ ~query.raised
    /\ query.val = <<Alice>>
    /\ \E q \in 1..Len(Inputs) : Inputs[q].row.Tiers = Bob

(***************************************************************************)
(* C15: for fixed contents of the directory the ledger load_data computes  *)
(* holds the same records whatever order the enumeration yields the files  *)
(* in; of the rows of two files that share (date, expense amount, party,   *)
(* notes) the same one survives, with its category and source file.  Read  *)
(* in the claim's favour: the ledgers are compared as sets of records, the *)
(* order and the labels of the rows left aside.                            *)
(***************************************************************************)
Record(r) ==
    [Date |-> r.Date, Depense |-> r.Depense, Revenu |-> r.Revenu, Tiers |-> r.Tiers,
     Categorie |-> r.Categorie, Notes |-> r.Notes, source_file |-> r.source_file]

Records(rows) == {Record(rows[i]) : i \in 1..Len(rows)}

SameWhateverOrder(ledger, d) ==
    \A o \in GlobOrders(d) : Records(load_data(d, o).rows) = Records(ledger)

C15_EnumerationOrderIrrelevant ==
    (ret.op = "load_data" /\ ~ret.cached) => SameWhateverOrder(Ledger, ret.at)

(***************************************************************************)
(* C16: amount coercion is per row: a ledger row gets from a well-formed   *)
(* comma-decimal expense or income text the amount that text denotes, the  *)
(* amount it gets in a file without defects, whether or not another row of *)
(* the same file holds a non-numeric text in that column.                  *)
(***************************************************************************)
WellFormedAmountTexts == {T_50_00, T_10_00, T_minus_5_00, T_0}

\* what a well-formed text denotes, in hundredths
AmountOf(t) ==
    IF t = T_50_00 THEN 5000
    ELSE IF t = T_10_00 THEN 1000
    ELSE IF t = T_minus_5_00 THEN 0 - 500
    ELSE 0

AmountPerRow(ledger, inputs) ==
    \A i \in 1..Len(ledger) :
        LET src == inputs[ledger[i].index + 1].row
        IN  /\ src.Depense \in WellFormedAmountTexts =>
                  ledger[i].Depense = AmountOf(src.Depense)
            /\ src.Revenu \in WellFormedAmountTexts =>
                  ledger[i].Revenu = AmountOf(src.Revenu)

C16_AmountPerRow == Computed => AmountPerRow(Ledger, Inputs)

(***************************************************************************)
(* C17: for every file f of the directory, the records of load_data's      *)
(* ledger whose source_file is f are records of load_single_file(f), in    *)
(* the same relative order; a record of load_single_file(f) is missing     *)
(* from load_data's ledger only when a file earlier in concatenation order *)
(* holds a valid-date row with the same (date, expense amount, party,      *)
(* notes).                                                                 *)
(***************************************************************************)
RecordsOfFile(rows, f) ==
    LET own == SelectRows(rows, {i \in 1..Len(rows) : rows[i].source_file = f})
    IN  [k \in 1..Len(own) |-> Record(own[k])]

PlaceInOrder(order, f) == CHOOSE k \in 1..Len(order) : order[k] = f

SubsetOfSingleFile(ledger, cands, d, order) ==
    \A f \in Present(d) :
        LET own    == RecordsOfFile(ledger, f)
            single == RecordsOfFile(load_single_file(d, f).rows, f)
            shared == {k \in 1..Len(single) : \E i \in 1..Len(own) : own[i] = single[k]}
        IN  /\ \A i \in 1..Len(own) : \E k \in 1..Len(single) : single[k] = own[i]
            /\ own = SelectRows(single, shared)
            /\ \A k \in (1..Len(single)) \ shared :
                  \E c \in 1..Len(cands) :
                      /\ PlaceInOrder(order, cands[c].source_file) < PlaceInOrder(order, f)
                      /\ DedupKey(cands[c]) = DedupKey(single[k])

C17_SubsetOfSingleFile ==
    (ret.op = "load_data" /\ ~ret.cached) =>
        SubsetOfSingleFile(Ledger, Candidates, ret.at, ret.order)

\* load_data has read two files and its ledger holds no record of the second,
\* of which load_single_file returns a record
C17_Witness ==
    /\ ret.op = "load_data"
    /\ Len(ret.order) = 2
    /\ RecordsOfFile(Ledger, ret.order[2]) = <<>>
    /\ load_single_file(ret.at, ret.order[2]).rows # <<>>

====
